---------------------------- MODULE Spec2Model ----------------------------
(***************************************************************************)
(* A model of auto.py: the Discord multi-user auto messenger.              *)
(*                                                                         *)
(* main loads the accounts, starts one user_message_loop thread per        *)
(* account and blocks; each user_message_loop starts one                   *)
(* channel_message_loop thread per channel; each channel_message_loop      *)
(* sends its messages in order, calling precise_sleep(channel.delay) after *)
(* every send and precise_sleep(1.0) after every cycle.                    *)
(*                                                                         *)
(* Time is counted in ticks of 100 ms (the argument of time.sleep in       *)
(* precise_sleep).  Code that neither sleeps nor waits for the network     *)
(* takes no time: a tick passes only when every live thread is inside      *)
(* time.sleep, inside the HTTPS exchange, or polling the clock in the last *)
(* 100 ms of precise_sleep.                                                *)
(***************************************************************************)
EXTENDS Integers, Sequences, FiniteSets, TLC

VARIABLES
    values,         \* the rows of the sheet load_from_sheets was given, header first
    users,          \* the list load_from_sheets returned (UserConfig objects)
    mainPc,         \* where main() is
    user_threads,   \* main's list user_threads: the args of each Thread object
    mainNext,       \* main's position in "for thread in user_threads"
    printed,        \* the diagnostics main has printed
    userRuns,       \* the started user_message_loop threads
    workers,        \* the started channel_message_loop threads
    now,            \* ticks since the process started (stops counting at MaxTime)
    network         \* "up", or "down": every HTTPS exchange of the run fails

vars == <<values, users, mainPc, user_threads, mainNext, printed, userRuns, workers, now,
          network>>

---------------------------------------------------------------------------
(* Bounds of the model *)

\* the horizon, in ticks: up to it now, callAt, logAt, sendCount and
\* cycleCount are recorded
MaxTime == 100
\* the most ticks one thread spends, in all, inside HTTPS exchanges
MaxNetworkWait == 1
\* the longest duration and the largest min_random, max_random, in ticks,
\* precise_sleep is called with when it is run on its own
MaxDuration == 12
MaxJitter == 2

(* Program constants, in ticks of 100 ms *)

\* time.sleep(0.1)
SleepIncrement == 1
\* if remaining > 0.1
SleepThreshold == 1
\* precise_sleep(1.0)  # Short sleep between cycles
CyclePause == 10

\* time.sleep(0.1) returns after 100 ms or, late, after up to 200 ms
SleepTimes == {SleepIncrement, SleepIncrement + 1}

Min(a, b) == IF a < b THEN a ELSE b
Max(a, b) == IF a < b THEN b ELSE a

\* one second, in ticks
Second == 10 * SleepIncrement

---------------------------------------------------------------------------
(* Configuration objects *)

\* ChannelConfig(url, id, alias, messages, delay)
ChannelConfig(id, messages, delay) ==
    [url |-> "url", id |-> id, alias |-> id, messages |-> messages, delay |-> delay]

\* UserConfig(user_id, token, channels, alias)
UserConfig(user_id, channels) ==
    [user_id |-> user_id, token |-> "token", channels |-> channels, alias |-> user_id]

---------------------------------------------------------------------------
(* The sheet and load_from_sheets *)

\* expected_headers
Headers ==
    <<"User ID", "User Alias", "Token", "Channel URL",
      "Channel ID", "Channel Alias", "Messages", "Delay">>

\* a data row with its eight cells.  The cell "Messages" is given by the
\* pieces row_data[6].split(',') cuts its text into: "hi, bye" is
\* <<"hi", " bye">> and the empty cell is <<"">>.
Row(user_id, user_alias, channel_id, channel_alias, messages, delay) ==
    <<user_id, user_alias, "token", "url", channel_id, channel_alias, messages, delay>>

\* msg.strip(), for the pieces the sheets of the model hold
strip(msg) ==
    CASE msg = " bye" -> "bye"
      [] msg = " "    -> ""
      [] OTHER        -> msg

\* [msg.strip() for msg in row_data[6].split(',') if msg.strip()]
RECURSIVE stripped_messages(_)
stripped_messages(pieces) ==
    IF Len(pieces) = 0 THEN <<>>
    ELSE IF strip(Head(pieces)) # ""
         THEN <<strip(Head(pieces))>> \o stripped_messages(Tail(pieces))
         ELSE stripped_messages(Tail(pieces))

\* float(row_data[7]), in ticks of 100 ms, for the texts the sheets of the
\* model hold: the number, or ValueError for a text that is no number
float(text) ==
    CASE text = "2"   -> [raised |-> FALSE, value |-> 20]
      [] text = "1"   -> [raised |-> FALSE, value |-> 10]
      [] text = "5"   -> [raised |-> FALSE, value |-> 50]
      [] text = "0.3" -> [raised |-> FALSE, value |-> 3]
      [] text = "0"   -> [raised |-> FALSE, value |-> 0]
      [] text = "-1"  -> [raised |-> FALSE, value |-> -10]
      [] OTHER        -> [raised |-> TRUE, value |-> 0]

\* ChannelConfig.from_sheet_row(row_data): the object, or the exception of
\* float()
from_sheet_row(row_data) ==
    [raised |-> float(row_data[8]).raised,
     config |-> [url |-> row_data[4],
                 id |-> row_data[5],
                 alias |-> IF row_data[6] # "" THEN row_data[6] ELSE row_data[5],
                 messages |-> stripped_messages(row_data[7]),
                 delay |-> float(row_data[8]).value]]

\* validate_sheet_structure(values); the header cells of the model's sheets
\* are spelled as expected_headers spells them or differently, never in
\* another case
validate_sheet_structure(sheet) ==
    /\ Len(sheet) >= 2
    /\ Len(sheet[1]) >= Len(Headers)
    /\ \A k \in 1..Len(Headers) : sheet[1][k] = Headers[k]

\* load_rows with a row whose channel cannot be built left out, the other
\* rows being loaded
RECURSIVE load_rows_skips_bad(_, _)
load_rows_skips_bad(rows, loaded) ==
    IF Len(rows) = 0 THEN [raised |-> FALSE, users |-> loaded]
    ELSE LET row == Head(rows)
         IN  IF Len(row) < 8 THEN load_rows_skips_bad(Tail(rows), loaded)
             ELSE LET user_id == row[1]
                      known == \E a \in DOMAIN loaded : loaded[a].user_id = user_id
                      with_user ==
                          IF known THEN loaded
                          ELSE Append(loaded,
                                      [user_id |-> user_id, token |-> row[3],
                                       channels |-> <<>>,
                                       alias |-> IF row[2] # "" THEN row[2] ELSE user_id])
                      a == CHOOSE a \in DOMAIN with_user : with_user[a].user_id = user_id
                      channel == from_sheet_row(row)
                  IN  IF channel.raised
                      THEN load_rows_skips_bad(Tail(rows), loaded)
                      ELSE load_rows_skips_bad(Tail(rows),
                             [with_user EXCEPT ![a].channels = Append(@, channel.config)])

\* the loop "for row in values[1:]" of load_from_sheets, from the row at the
\* head of rows on, loaded being list(users.values()) so far: the accounts
\* at its end, or the exception that ended it
RECURSIVE load_rows(_, _)
load_rows(rows, loaded) ==
    IF Len(rows) = 0 THEN [raised |-> FALSE, users |-> loaded]
    ELSE LET row == Head(rows)
         IN  IF Len(row) < 8 THEN load_rows(Tail(rows), loaded)
             ELSE LET user_id == row[1]
                      known == \E a \in DOMAIN loaded : loaded[a].user_id = user_id
                      with_user ==
                          IF known THEN loaded
                          ELSE Append(loaded,
                                      [user_id |-> user_id, token |-> row[3],
                                       channels |-> <<>>,
                                       alias |-> IF row[2] # "" THEN row[2] ELSE user_id])
                      a == CHOOSE a \in DOMAIN with_user : with_user[a].user_id = user_id
                      channel == from_sheet_row(row)
                  IN  IF channel.raised
                      THEN [raised |-> TRUE, users |-> with_user]
                      ELSE load_rows(Tail(rows),
                             [with_user EXCEPT ![a].channels = Append(@, channel.config)])

\* load_from_sheets(sheet_id) when the API returns the rows sheet: [] for no
\* rows, for a sheet of a wrong structure and, by "except Exception", for an
\* exception in the loop; else list(users.values())
load_from_sheets(sheet) ==
    IF Len(sheet) = 0 THEN <<>>
    ELSE IF ~validate_sheet_structure(sheet) THEN <<>>
    ELSE LET result == load_rows(Tail(sheet), <<>>)
         IN  IF result.raised THEN <<>> ELSE result.users

\* The sheets the model runs
Sheets ==
    { <<>>,
      << Headers >>,
      << SubSeq(Headers, 1, 7), Row("A1", "", "C1", "", <<"hi">>, "1") >>,
      << Headers, Row("A1", "alice", "C1", "general", <<"hi", " bye">>, "2") >>,
      << Headers, Row("A1", "", "C1", "", <<"m">>, "1"),
                  Row("A1", "", "C2", "", <<"m">>, "5") >>,
      << Headers, Row("A1", "", "C1", "", <<"">>, "-1") >>,
      << Headers, <<"A2", "", "token">>,
                  Row("A1", "", "C1", "", <<" ", "">>, "1") >>,
      << Headers, Row("A1", "", "C1", "", <<"hi">>, "0"),
                  Row("A2", "", "C2", "", <<"hi", " bye">>, "0.3") >>,
      << Headers, Row("A1", "", "C1", "", <<"hi">>, "1"),
                  <<"A2", "", "token", "url", "C2">>,
                  Row("A3", "", "C3", "", <<"hi">>, "soon"),
                  Row("A4", "", "C4", "", <<"hi">>, "1") >> }

\* The lists load_from_sheets returns for them
Configs == {load_from_sheets(sheet) : sheet \in Sheets}

\* the number of channels of all the accounts of a configuration
RECURSIVE ChannelCount(_)
ChannelCount(cfg) ==
    IF cfg = <<>> THEN 0
    ELSE Len(cfg[1].channels) + ChannelCount(Tail(cfg))

\* the positions a thread can have in userRuns and in workers, and a message
\* in a message list, over all the configurations
UserIds == 1..(CHOOSE k \in 0..8 : /\ \A cfg \in Configs : Len(cfg) <= k
                                  /\ \E cfg \in Configs : Len(cfg) = k)
WorkerIds == 1..(CHOOSE k \in 0..8 : /\ \A cfg \in Configs : ChannelCount(cfg) <= k
                                    /\ \E cfg \in Configs : ChannelCount(cfg) = k)
Positions == 1..(CHOOSE k \in 0..8 :
                   /\ \A cfg \in Configs : \A a \in DOMAIN cfg :
                        \A c \in DOMAIN cfg[a].channels :
                          Len(cfg[a].channels[c].messages) <= k
                   /\ \E cfg \in Configs : \E a \in DOMAIN cfg :
                        \E c \in DOMAIN cfg[a].channels :
                          Len(cfg[a].channels[c].messages) = k)

\* the outcomes of one send_message call: a status in 200..299, any other
\* status, an exception in the request or the response
Outcomes == {"Success", "RejectedByServer", "TransportError"}

\* the status codes of the responses the model runs
StatusCodes == {199, 200, 299, 300}

\* no exchange has ended
NoResponse == [raised |-> FALSE, status |-> 0]

\* the ways the HTTPS exchange of one send_message call can end:
\* conn.request or conn.getresponse raises, or resp.status is read
Exchanges(net) ==
    {[raised |-> TRUE, status |-> 0]}
        \cup (IF net = "down" THEN {}
              ELSE {[raised |-> FALSE, status |-> s] : s \in StatusCodes})

\* response_outcome with the test "199 <= resp.status < 300"
response_outcome_from_199(r) ==
    IF r.raised THEN "TransportError"
    ELSE IF 199 <= r.status /\ r.status < 300 THEN "Success"
    ELSE "RejectedByServer"

\* the branch of send_message that prints: "except Exception", or
\* "if 199 < resp.status < 300", or its else
response_outcome(r) ==
    IF r.raised THEN "TransportError"
    ELSE IF 199 < r.status /\ r.status < 300 THEN "Success"
    ELSE "RejectedByServer"

\* the outcomes the network allows
Reachable(net) == {response_outcome(r) : r \in Exchanges(net)}

\* UserConfig.get_display_name: self.alias if self.alias else self.user_id
get_display_name(user) == IF user.alias # "" THEN user.alias ELSE user.user_id

\* the line send_message prints: each of its three print calls names
\* user.get_display_name() and channel.alias
log_line(user, channel, outcome) ==
    [outcome |-> outcome, user |-> get_display_name(user), channel |-> channel.alias]

\* the horizon is not reached: times and counts are recorded
recording == now < MaxTime

\* the process is running: main has neither returned nor exited
alive == mainPc \notin {"returned", "exited"}


---------------------------------------------------------------------------
(* The initial state: main() has been called, nothing is loaded or started *)

Init ==
    /\ values = <<>>
    /\ users = <<>>
    /\ mainPc = "start"
    /\ user_threads = <<>>
    /\ mainNext = 1
    /\ printed = {}
    /\ userRuns = <<>>
    /\ workers = <<>>
    /\ now = 0
    /\ network \in {"up", "down"}

---------------------------------------------------------------------------
(* main *)

\* python3 auto.py --help: show_help() and return
main_help ==
    /\ mainPc = "start"
    /\ mainPc' = "returned"
    /\ printed' = printed \cup {"help"}
    /\ UNCHANGED <<values, users, user_threads, mainNext, userRuns, workers, now, network>>

\* sheet_id = get_sheet_url_from_user(); users = load_from_sheets(sheet_id)
main_load ==
    /\ mainPc = "start"
    /\ \E sheet \in Sheets :
         /\ values' = sheet
         /\ users' = load_from_sheets(sheet)
    /\ mainPc' = "loaded"
    /\ UNCHANGED <<user_threads, mainNext, printed, userRuns, workers, now, network>>

\* main_no_users without the return: main goes on to its blocking loop
main_no_users_goes_on ==
    /\ mainPc = "loaded"
    /\ users = <<>>
    /\ printed' = printed \cup {"No users configured"}
    /\ mainPc' = "blocking"
    /\ UNCHANGED <<values, users, user_threads, mainNext, userRuns, workers, now, network>>

\* if not users: print "No users configured ..."; return
main_no_users ==
    /\ mainPc = "loaded"
    /\ users = <<>>
    /\ printed' = printed \cup {"No users configured"}
    /\ mainPc' = "returned"
    /\ UNCHANGED <<values, users, user_threads, mainNext, userRuns, workers, now, network>>

\* the Thread objects main builds: Thread(target=user_message_loop, args=(user,))
main_thread_args == [a \in 1..Len(users) |-> a]

\* show_configuration_summary(users); build user_threads; print "Starting ..."
main_create_threads ==
    /\ mainPc = "loaded"
    /\ users # <<>>
    /\ user_threads' = main_thread_args
    /\ mainNext' = 1
    /\ printed' = printed \cup {"summary", "Starting"}
    /\ mainPc' = "starting"
    /\ UNCHANGED <<values, users, userRuns, workers, now, network>>

\* main_after_start without the blocking loop: main returns
main_after_start_returns ==
    IF mainNext = Len(user_threads) THEN "returned" ELSE "starting"

\* where main is once it has started the thread at position mainNext
main_after_start == IF mainNext = Len(user_threads) THEN "blocking" ELSE "starting"

\* for thread in user_threads: thread.start(); then the try block is entered
main_start_thread ==
    /\ mainPc = "starting"
    /\ mainNext <= Len(user_threads)
    /\ userRuns' = Append(userRuns,
                          [user |-> user_threads[mainNext], pc |-> "create",
                           channel_threads |-> <<>>, next |-> 1])
    /\ mainNext' = mainNext + 1
    /\ mainPc' = main_after_start
    /\ UNCHANGED <<values, users, user_threads, printed, workers, now, network>>

\* while True: time.sleep(1)
main_sleep ==
    /\ mainPc = "blocking"
    /\ UNCHANGED vars

\* KeyboardInterrupt with the threads joined first: no send is in flight when
\* the process ends
KeyboardInterrupt_joins ==
    /\ alive
    /\ \A n \in DOMAIN workers : workers[n].pc # "send"
    /\ printed' = IF mainPc = "blocking"
                  THEN printed \cup {"Received shutdown signal"}
                  ELSE printed
    /\ mainPc' = "exited"
    /\ UNCHANGED <<values, users, user_threads, mainNext, userRuns, workers, now, network>>

\* Ctrl-C.  Inside the try block: print "Received shutdown signal", sys.exit(0).
\* Anywhere else in main the exception is not caught and ends the main thread.
\* Every other thread is a daemon thread, so the process ends in both cases.
KeyboardInterrupt ==
    /\ alive
    /\ printed' = IF mainPc = "blocking"
                  THEN printed \cup {"Received shutdown signal"}
                  ELSE printed
    /\ mainPc' = "exited"
    /\ UNCHANGED <<values, users, user_threads, mainNext, userRuns, workers, now, network>>

---------------------------------------------------------------------------
(* user_message_loop(user), the thread at position u of userRuns *)

\* user_thread_args with every thread bound to the last channel of the loop
user_thread_args_last(a) ==
    [k \in 1..Len(users[a].channels) |->
        [user |-> a, channel |-> Len(users[a].channels)]]

\* the Thread objects user_message_loop builds for the account a:
\* Thread(target=channel_message_loop, args=(user, channel))
user_thread_args(a) ==
    [k \in 1..Len(users[a].channels) |-> [user |-> a, channel |-> k]]

\* for channel in user.channels: channel_threads.append(Thread(...))
user_create_threads(u) ==
    /\ alive
    /\ userRuns[u].pc = "create"
    /\ LET args == user_thread_args(userRuns[u].user)
       IN  userRuns' = [userRuns EXCEPT
                          ![u].channel_threads = args,
                          ![u].next = 1,
                          ![u].pc = IF Len(args) = 0 THEN "returned" ELSE "start"]
    /\ UNCHANGED <<values, users, mainPc, user_threads, mainNext, printed, workers, now, network>>

\* the arguments of a precise_sleep call
Call(duration, randomize, min_random, max_random) ==
    [duration |-> duration, randomize |-> randomize,
     min_random |-> min_random, max_random |-> max_random]

\* precise_sleep(duration): randomize=False, min_random=0, max_random=0
DefaultCall(duration) == Call(duration, FALSE, 0, 0)

\* the thread has not called precise_sleep
NoCall == DefaultCall(0)

\* a channel_message_loop thread as thread.start() leaves it
NewWorker(args) ==
    [user |-> args.user, channel |-> args.channel,
     pc |-> "cycle_start", i |-> 0,
     ret |-> "none", sleep_duration |-> 0, elapsed |-> 0, wake |-> 0,
     iter |-> "none", latency |-> 0, outcome |-> "none",
     resp |-> NoResponse, lines |-> <<>>, call |-> NoCall, requests |-> 0,
     cycleSent |-> <<>>, sendCount |-> 0, cycleCount |-> 0,
     callAt |-> -1, logAt |-> -1, sinceSend |-> -1, sinceLog |-> -1,
     latSum |-> 0]

\* for thread in channel_threads: thread.start(); then the function returns
user_start_thread(u) ==
    /\ alive
    /\ userRuns[u].pc = "start"
    /\ LET r == userRuns[u]
       IN  /\ workers' = Append(workers, NewWorker(r.channel_threads[r.next]))
           /\ userRuns' = [userRuns EXCEPT
                             ![u].next = r.next + 1,
                             ![u].pc = IF r.next = Len(r.channel_threads)
                                       THEN "returned" ELSE "start"]
    /\ UNCHANGED <<values, users, mainPc, user_threads, mainNext, printed, now, network>>

---------------------------------------------------------------------------
(* precise_sleep(duration), as the thread at position n of workers runs it *)

\* the channel and the message list the thread n was started for
ChannelOf(n) == users[workers[n].user].channels[workers[n].channel]
MessagesOf(n) == ChannelOf(n).messages

\* sleep_durations with the jitter applied when min_random or max_random is
\* not zero, whatever randomize is
sleep_durations_by_bounds(call) ==
    IF call.min_random # 0 \/ call.max_random # 0
    THEN {call.duration + j : j \in Min(call.min_random, call.max_random)
                                    ..Max(call.min_random, call.max_random)}
    ELSE {call.duration}

\* the values sleep_duration can get: duration + random.uniform(min_random,
\* max_random) if randomize, else duration
sleep_durations(call) ==
    IF call.randomize
    THEN {call.duration + j : j \in Min(call.min_random, call.max_random)
                                    ..Max(call.min_random, call.max_random)}
    ELSE {call.duration}

\* the states in which precise_sleep, called with the arguments call, can
\* reach its loop: sleep_duration is set, start_time = time.perf_counter().
\* elapsed stands for time.perf_counter() - start_time; ret is where the call
\* returns to: "msg" (line 206) or "cycle" (line 208).
ps_begin(w, call, ret) ==
    {[w EXCEPT !.pc = "ps_loop", !.ret = ret, !.call = call,
               !.sleep_duration = t, !.elapsed = 0, !.wake = 0, !.iter = "none"] :
        t \in sleep_durations(call)}

\* precise_sleep(duration) as channel_message_loop calls it: randomize,
\* min_random and max_random have their defaults
precise_sleep(w, duration, ret) ==
    CHOOSE v \in ps_begin(w, DefaultCall(duration), ret) : TRUE

\* precise_sleep(duration, randomize, min_random, max_random) is called with
\* the arguments the thread holds in call
precise_sleep_call(n) ==
    /\ alive
    /\ workers[n].pc = "call"
    /\ \E v \in ps_begin(workers[n], workers[n].call, workers[n].ret) :
         workers' = [workers EXCEPT ![n] = v]
    /\ UNCHANGED <<values, users, mainPc, user_threads, mainNext, printed, userRuns, now, network>>

\* ps_running with the loop left 100 ms before the target
ps_running_short(w) == w.elapsed + SleepIncrement < w.sleep_duration

\* while (time.perf_counter() - start_time) < sleep_duration
ps_running(w) == w.elapsed < w.sleep_duration

\* ps_sleeps with no time.sleep at all: the loop only tests the clock
ps_sleeps_never(w) == FALSE

\* ps_sleeps with the test "if remaining > 0"
ps_sleeps_late(w) == w.sleep_duration - w.elapsed > 0

\* remaining = sleep_duration - (time.perf_counter() - start_time);
\* if remaining > 0.1
ps_sleeps(w) == w.sleep_duration - w.elapsed > SleepThreshold

\* ps_return with the thread over after one cycle (no "while True")
ps_return_once(w) ==
    IF w.ret = "msg"
    THEN [w EXCEPT !.pc = "for", !.i = w.i + 1, !.iter = "none"]
    ELSE [w EXCEPT !.pc = "dead", !.iter = "none"]

\* the statement after the precise_sleep call: the for loop's next message
\* (line 204) or the next round of "while True" (line 202)
ps_return(w) ==
    IF w.ret = "msg"
    THEN [w EXCEPT !.pc = "for", !.i = w.i + 1, !.iter = "none"]
    ELSE [w EXCEPT !.pc = "cycle_start", !.iter = "none"]

\* one test of the while condition and, if it holds, one run of the loop body:
\* time.sleep(0.1) is entered, or nothing is done and the condition is
\* tested again
ps_loop(n) ==
    /\ alive
    /\ workers[n].pc = "ps_loop"
    /\ LET w == workers[n]
       IN  IF ps_running(w)
           THEN IF ps_sleeps(w)
                THEN \E t \in SleepTimes :
                        workers' = [workers EXCEPT ![n] =
                            [w EXCEPT !.pc = "ps_sleep", !.wake = t, !.iter = "sleep"]]
                ELSE workers' = [workers EXCEPT ![n] = [w EXCEPT !.iter = "spin"]]
           ELSE workers' = [workers EXCEPT ![n] = ps_return(w)]
    /\ UNCHANGED <<values, users, mainPc, user_threads, mainNext, printed, userRuns, now, network>>

\* time.sleep(0.1) returns
ps_wake(n) ==
    /\ alive
    /\ workers[n].pc = "ps_sleep"
    /\ workers[n].wake = 0
    /\ workers' = [workers EXCEPT ![n].pc = "ps_loop"]
    /\ UNCHANGED <<values, users, mainPc, user_threads, mainNext, printed, userRuns, now, network>>

---------------------------------------------------------------------------
(* send_message and channel_message_loop, the thread at position n of workers *)

\* send_message letting the exception of a failed exchange through
send_message_raises(outcome) ==
    [printed |-> outcome, raised |-> outcome = "TransportError"]

\* send_message(user, channel, message) for each way the HTTPS exchange can
\* end: what is printed and whether an exception leaves the function.  The
\* try block covers the whole body and "except Exception" catches everything.
send_message(outcome) ==
    [printed |-> outcome, raised |-> FALSE]

\* cycle_begin with the for loop started at the second message
cycle_begin_second(n) ==
    /\ alive
    /\ workers[n].pc = "cycle_start"
    /\ workers' = [workers EXCEPT ![n].pc = "for", ![n].i = 1,
                                  ![n].cycleSent = <<>>]
    /\ UNCHANGED <<values, users, mainPc, user_threads, mainNext, printed, userRuns, now, network>>

\* while True: print "starting messages"; the for loop starts
cycle_begin(n) ==
    /\ alive
    /\ workers[n].pc = "cycle_start"
    /\ workers' = [workers EXCEPT ![n].pc = "for", ![n].i = 0,
                                  ![n].cycleSent = <<>>]
    /\ UNCHANGED <<values, users, mainPc, user_threads, mainNext, printed, userRuns, now, network>>

\* has_next with the last message left out
has_next_short(w, messages) == w.i + 1 < Len(messages)

\* the for loop has a next message
has_next(w, messages) == w.i < Len(messages)

\* the message "for message in channel.messages" yields at position i
next_message(w, messages) == messages[w.i + 1]

\* one connection for all threads, used by one exchange at a time
connection_shared(n) ==
    \A m \in DOMAIN workers \ {n} : workers[m].pc # "send"

\* conn = HTTPSConnection("discordapp.com", 443): every call of send_message
\* opens a connection of its own and waits for no other thread's
connection_free(n) == TRUE

\* send_call with the message taken off the channel's list
\* (channel.messages.pop(0) in place of the for loop)
send_call_pops(n) ==
    /\ alive
    /\ workers[n].pc = "for"
    /\ connection_free(n)
    /\ has_next(workers[n], MessagesOf(n))
    /\ LET w == workers[n]
       IN  /\ workers' = [workers EXCEPT ![n] =
                 [w EXCEPT !.pc = "send", !.latency = 0, !.outcome = "none",
                           !.resp = NoResponse, !.lines = <<>>, !.requests = 1,
                           !.cycleSent = Append(w.cycleSent, next_message(w, MessagesOf(n))),
                           !.sendCount = IF recording THEN w.sendCount + 1 ELSE w.sendCount,
                           !.callAt = IF recording THEN now ELSE w.callAt]]
           /\ users' = [users EXCEPT ![w.user].channels[w.channel].messages =
                                       Tail(MessagesOf(n))]
    /\ UNCHANGED <<values, mainPc, user_threads, mainNext, printed, userRuns, now, network>>

\* for message in channel.messages: send_message(user, channel, message) is
\* called and the request goes out: conn.request("POST", ...), once
send_call(n) ==
    /\ alive
    /\ workers[n].pc = "for"
    /\ connection_free(n)
    /\ has_next(workers[n], MessagesOf(n))
    /\ LET w == workers[n]
       IN  workers' = [workers EXCEPT ![n] =
             [w EXCEPT !.pc = "send", !.latency = 0, !.outcome = "none",
                       !.resp = NoResponse, !.lines = <<>>, !.requests = 1,
                       !.cycleSent = Append(w.cycleSent, next_message(w, MessagesOf(n))),
                       !.sendCount = IF recording THEN w.sendCount + 1 ELSE w.sendCount,
                       !.callAt = IF recording THEN now ELSE w.callAt]]
    /\ UNCHANGED <<values, users, mainPc, user_threads, mainNext, printed, userRuns, now, network>>

\* send_return with the request made a second time when the first exchange
\* did not end in success
send_return_retries(n) ==
    /\ alive
    /\ workers[n].pc = "send"
    /\ \E r \in Exchanges(network) :
         LET w == workers[n]
             result == send_message(response_outcome(r))
         IN  IF result.printed # "Success" /\ w.requests < 2
             THEN workers' = [workers EXCEPT ![n].requests = w.requests + 1]
             ELSE workers' = [workers EXCEPT ![n] =
                    [w EXCEPT !.pc = IF result.raised THEN "dead" ELSE "sent",
                              !.outcome = result.printed,
                              !.resp = r,
                              !.lines = <<log_line(users[w.user], ChannelOf(n),
                                                   result.printed)>>,
                              !.sinceSend = 0,
                              !.latSum = w.latSum + w.latency]]
    /\ UNCHANGED <<values, users, mainPc, user_threads, mainNext, printed, userRuns, now, network>>

\* the HTTPS exchange ends: send_message prints the outcome and returns to
\* channel_message_loop, unless an exception leaves it, which ends the thread
send_return(n) ==
    /\ alive
    /\ workers[n].pc = "send"
    /\ \E r \in Exchanges(network) :
         LET w == workers[n]
             result == send_message(response_outcome(r))
         IN  workers' = [workers EXCEPT ![n] =
               [w EXCEPT !.pc = IF result.raised THEN "dead" ELSE "sent",
                         !.outcome = result.printed,
                         !.resp = r,
                         !.lines = <<log_line(users[w.user], ChannelOf(n),
                                              result.printed)>>,
                         !.sinceSend = 0,
                         !.latSum = w.latSum + w.latency]]
    /\ UNCHANGED <<values, users, mainPc, user_threads, mainNext, printed, userRuns, now, network>>

\* after_send with no delay after the last message of the list
after_send_no_last_delay(w, channel) ==
    IF w.i + 1 < Len(channel.messages)
    THEN precise_sleep([w EXCEPT !.outcome = "none", !.resp = NoResponse,
                                 !.lines = <<>>, !.requests = 0],
                       channel.delay, "msg")
    ELSE [w EXCEPT !.outcome = "none", !.resp = NoResponse, !.lines = <<>>,
                   !.requests = 0, !.pc = "for", !.i = w.i + 1]

\* the statement after send_message(user, channel, message):
\* precise_sleep(channel.delay), whatever send_message printed
after_send(w, channel) ==
    precise_sleep([w EXCEPT !.outcome = "none", !.resp = NoResponse,
                            !.lines = <<>>, !.requests = 0],
                  channel.delay, "msg")

\* send_message has returned: precise_sleep(channel.delay) is called
sleep_after_send(n) ==
    /\ alive
    /\ workers[n].pc = "sent"
    /\ workers' = [workers EXCEPT ![n] = after_send(workers[n], ChannelOf(n))]
    /\ UNCHANGED <<values, users, mainPc, user_threads, mainNext, printed, userRuns, now, network>>

\* cycle_end without precise_sleep(1.0): the next cycle starts at once
cycle_end_no_pause(n) ==
    /\ alive
    /\ workers[n].pc = "for"
    /\ ~has_next(workers[n], MessagesOf(n))
    /\ LET w == workers[n]
       IN  workers' = [workers EXCEPT ![n] =
             [w EXCEPT !.cycleCount = IF recording THEN w.cycleCount + 1
                                      ELSE w.cycleCount,
                       !.logAt = IF recording THEN now ELSE w.logAt,
                       !.sinceLog = 0,
                       !.pc = "cycle_start"]]
    /\ UNCHANGED <<values, users, mainPc, user_threads, mainNext, printed, userRuns, now, network>>

\* the for loop is over: print "completed message cycle"; precise_sleep(1.0)
cycle_end(n) ==
    /\ alive
    /\ workers[n].pc = "for"
    /\ ~has_next(workers[n], MessagesOf(n))
    /\ LET w == workers[n]
           logged == [w EXCEPT !.cycleCount = IF recording THEN w.cycleCount + 1
                                                              ELSE w.cycleCount,
                               !.logAt = IF recording THEN now ELSE w.logAt,
                               !.sinceLog = 0]
       IN  workers' = [workers EXCEPT ![n] = precise_sleep(logged, CyclePause, "cycle")]
    /\ UNCHANGED <<values, users, mainPc, user_threads, mainNext, printed, userRuns, now, network>>

\* a step of the thread n
worker_step(n) ==
    \/ cycle_begin(n)
    \/ send_call(n)
    \/ send_return(n)
    \/ sleep_after_send(n)
    \/ cycle_end(n)
    \/ ps_loop(n)
    \/ ps_wake(n)

---------------------------------------------------------------------------
(* The passing of time *)

\* the thread is inside time.sleep(0.1), inside the HTTPS exchange, polling
\* the clock at the end of precise_sleep, or over
worker_waits(w) ==
    \/ w.pc = "ps_sleep" /\ w.wake > 0
    \/ w.pc = "ps_loop" /\ w.iter = "spin" /\ ps_running(w)
    \/ w.pc = "send" /\ w.latSum + w.latency < MaxNetworkWait
    \/ w.pc = "dead"

\* the thread after 100 ms more
worker_tick(w) ==
    [w EXCEPT
       !.elapsed = IF w.pc \in {"ps_loop", "ps_sleep"} THEN w.elapsed + 1 ELSE w.elapsed,
       !.wake = IF w.pc = "ps_sleep" THEN w.wake - 1 ELSE w.wake,
       !.latency = IF w.pc = "send" THEN w.latency + 1 ELSE w.latency,
       !.sinceSend = IF w.sinceSend >= 0 THEN Min(w.sinceSend + 1, MaxTime) ELSE w.sinceSend,
       !.sinceLog = IF w.sinceLog >= 0 THEN Min(w.sinceLog + 1, MaxTime) ELSE w.sinceLog]

\* 100 ms pass: main is in time.sleep(1), every user_message_loop has
\* returned and every channel_message_loop waits
Tick ==
    /\ alive
    /\ mainPc = "blocking"
    /\ \A u \in DOMAIN userRuns : userRuns[u].pc = "returned"
    /\ \A n \in DOMAIN workers : worker_waits(workers[n])
    /\ now' = Min(now + 1, MaxTime)
    /\ workers' = [n \in DOMAIN workers |-> worker_tick(workers[n])]
    /\ UNCHANGED <<values, users, mainPc, user_threads, mainNext, printed, userRuns, network>>

\* time passes up to the horizon
TickBounded ==
    /\ now < MaxTime
    /\ Tick

---------------------------------------------------------------------------
(* The specifications *)

Step ==
    \/ main_help
    \/ main_load
    \/ main_no_users
    \/ main_create_threads
    \/ main_start_thread
    \/ main_sleep
    \/ KeyboardInterrupt
    \/ \E u \in DOMAIN userRuns : user_create_threads(u)
    \/ \E u \in DOMAIN userRuns : user_start_thread(u)
    \/ \E n \in DOMAIN workers : cycle_begin(n)
    \/ \E n \in DOMAIN workers : send_call(n)
    \/ \E n \in DOMAIN workers : send_return(n)
    \/ \E n \in DOMAIN workers : sleep_after_send(n)
    \/ \E n \in DOMAIN workers : cycle_end(n)
    \/ \E n \in DOMAIN workers : ps_loop(n)
    \/ \E n \in DOMAIN workers : ps_wake(n)

Next == Step \/ TickBounded

\* the runs of the program up to the horizon MaxTime
Spec == Init /\ [][Next]_vars

\* a step of main other than its sleep
main_step ==
    \/ main_help
    \/ main_load
    \/ main_no_users
    \/ main_create_threads
    \/ main_start_thread

\* a step of the user_message_loop thread u
user_step(u) ==
    \/ user_create_threads(u)
    \/ user_start_thread(u)

\* the state past the horizon: the times of the sends are no longer recorded
InitLive ==
    /\ values = <<>>
    /\ users = <<>>
    /\ mainPc = "start"
    /\ user_threads = <<>>
    /\ mainNext = 1
    /\ printed = {}
    /\ userRuns = <<>>
    /\ workers = <<>>
    /\ now = MaxTime
    /\ network \in {"up", "down"}

NextLive == Step \/ Tick

\* every thread that can take a step takes one (the scheduler is fair and
\* every HTTPS exchange ends), and time passes; Ctrl-C may never come
Fairness ==
    /\ WF_vars(main_step)
    /\ \A u \in UserIds : WF_vars(u \in DOMAIN userRuns /\ user_step(u))
    /\ \A n \in WorkerIds : WF_vars(n \in DOMAIN workers /\ worker_step(n))
    /\ WF_vars(Tick)

\* the runs of the program without end, under fair scheduling
LiveSpec == InitLive /\ [][NextLive]_vars /\ Fairness

\* the arguments precise_sleep is run with on its own
Calls ==
    {Call(d, r, lo, hi) : d \in (-2)..MaxDuration, r \in BOOLEAN,
                          lo \in (-1)..MaxJitter, hi \in (-1)..MaxJitter}

\* one thread is about to call precise_sleep with some arguments; main is in
\* its blocking loop
InitSleep ==
    /\ values = <<>>
    /\ users = << UserConfig("A1", << ChannelConfig("C1", <<>>, Second) >>) >>
    /\ mainPc = "blocking"
    /\ user_threads = <<1>>
    /\ mainNext = 2
    /\ printed = {}
    /\ userRuns = << [user |-> 1, pc |-> "returned",
                      channel_threads |-> << [user |-> 1, channel |-> 1] >>,
                      next |-> 2] >>
    /\ \E call \in Calls :
         workers = << [NewWorker([user |-> 1, channel |-> 1])
                         EXCEPT !.pc = "call", !.call = call, !.ret = "cycle"] >>
    /\ now = 0
    /\ network = "up"

NextSleep ==
    \/ \E n \in DOMAIN workers : precise_sleep_call(n)
    \/ \E n \in DOMAIN workers : ps_loop(n)
    \/ \E n \in DOMAIN workers : ps_wake(n)
    \/ Tick

\* one call of precise_sleep, from its first line to its return
SleepSpec == InitSleep /\ [][NextSleep]_vars

---------------------------------------------------------------------------
(* Properties *)

\* the thread is inside precise_sleep
InSleep(w) == w.pc \in {"ps_loop", "ps_sleep"}

\* C1: in every cycle of every channel_message_loop the messages passed to
\* send_message are the channel's message list: at any moment a prefix of it,
\* in order, one per position of the for loop, and the whole list when the
\* cycle is logged as completed, in the first cycle as in every later one.
C1_CycleSendsConfiguredList ==
    \A n \in DOMAIN workers :
        LET w == workers[n]
            msgs == MessagesOf(n)
        IN  /\ Len(w.cycleSent) <= Len(msgs)
            /\ w.cycleSent = SubSeq(msgs, 1, Len(w.cycleSent))
            /\ (w.pc = "for") => (Len(w.cycleSent) = w.i)
            /\ (w.pc \in {"send", "sent"}) => (Len(w.cycleSent) = w.i + 1)
            /\ (InSleep(w) /\ w.ret = "msg") => (Len(w.cycleSent) = w.i + 1)
            /\ (InSleep(w) /\ w.ret = "cycle") => (w.cycleSent = msgs)

\* a thread in the pause after its third cycle of two messages
C1_Witness ==
    \E n \in DOMAIN workers :
        /\ Len(MessagesOf(n)) = 2
        /\ workers[n].cycleCount = 3
        /\ workers[n].pc = "ps_sleep"
        /\ workers[n].ret = "cycle"
        /\ workers[n].cycleSent = MessagesOf(n)

\* C2: whatever send_message printed (success, a status outside 200..299, an
\* exception), it returns, the thread then calls precise_sleep(channel.delay),
\* leaves it when exactly the delay has elapsed and goes on with the next
\* position of the message list, or ends the cycle after the last one; the
\* thread never ends.
C2_NextStepIgnoresOutcome ==
    [][\A n \in DOMAIN workers :
         LET w == workers[n]
             v == workers'[n]
             ch == ChannelOf(n)
         IN  /\ v.pc # "dead"
             /\ (w.pc = "send" /\ v.pc # "send")
                    => (v.pc = "sent" /\ v.outcome \in Outcomes /\ v.i = w.i)
             /\ (w.pc = "sent" /\ v # w)
                    => /\ v.pc = "ps_loop"
                       /\ v.ret = "msg"
                       /\ v.sleep_duration = ch.delay
                       /\ v.elapsed = 0
                       /\ v.i = w.i
             /\ (InSleep(w) /\ w.ret = "msg" /\ ~InSleep(v))
                    => /\ w.elapsed = ch.delay
                       /\ v.pc = "for"
                       /\ v.i = w.i + 1
             /\ (w.pc = "for" /\ w.i > 0 /\ v # w)
                    => IF w.i < Len(ch.messages)
                       THEN /\ v.pc = "send"
                            /\ v.cycleSent = Append(w.cycleSent, ch.messages[w.i + 1])
                       ELSE v.pc = "ps_loop" /\ v.ret = "cycle"
      ]_vars

\* with the network down, the second message of a cycle is in flight one
\* delay after the first one failed
C2_Witness ==
    \E n \in DOMAIN workers :
        /\ network = "down"
        /\ workers[n].pc = "send"
        /\ workers[n].i = 1
        /\ workers[n].sendCount = 2
        /\ ChannelOf(n).delay > 0
        /\ workers[n].sinceSend = ChannelOf(n).delay

\* C3, as the spec states it: with jitter disabled, any two consecutive
\* sends of a channel, those around the end of a cycle included, are one
\* delay apart (send_message is called one delay after it last returned, for
\* every delay > 0); in
\* a run of 10 s a channel of one message sends about 10 times when its delay
\* is 1 s and about 2 times when it is 5 s.
C3_AsStated ==
    /\ [][\A n \in DOMAIN workers :
            (workers[n].pc = "for" /\ workers'[n].pc = "send"
                                   /\ workers[n].sinceSend >= 0
                                   /\ ChannelOf(n).delay > 0)
                => (workers[n].sinceSend = ChannelOf(n).delay)
       ]_vars
    /\ [](\A n \in DOMAIN workers :
            (Len(MessagesOf(n)) = 1 /\ now = 10 * Second - 1)
                => /\ (ChannelOf(n).delay = Second) => (workers[n].sendCount \in 9..11)
                   /\ (ChannelOf(n).delay = 5 * Second) => (workers[n].sendCount = 2))

\* C3, amended: send_message is called one delay after it last returned when
\* both sends are of one cycle, and one delay and the pause of 1 s after it
\* last returned when the cycle ended in between (to less than a tick); in a
\* run of 10 s a channel of one message sends 5 times when its delay is 1 s
\* and 2 times when it is 5 s.
C3_SendIntervals ==
    /\ [][\A n \in DOMAIN workers :
            (workers[n].pc = "for" /\ workers'[n].pc = "send"
                                   /\ workers[n].sinceSend >= 0)
                => (workers[n].sinceSend =
                      ChannelOf(n).delay + (IF workers[n].i = 0 THEN CyclePause ELSE 0))
       ]_vars
    /\ [](\A n \in DOMAIN workers :
            (Len(MessagesOf(n)) = 1 /\ now = 10 * Second - 1)
                => /\ (ChannelOf(n).delay = Second) => (workers[n].sendCount = 5)
                   /\ (ChannelOf(n).delay = 5 * Second) => (workers[n].sendCount = 2))

\* the channel of one message and delay 1 s calls send_message for the fifth
\* time, 2 s after the fourth send returned, and no sixth time in 10 s
C3_Witness ==
    \E n \in DOMAIN workers :
        /\ Len(MessagesOf(n)) = 1
        /\ ChannelOf(n).delay = Second
        /\ workers[n].sendCount = 5
        /\ workers[n].pc = "send"
        /\ workers[n].sinceSend = Second + CyclePause
        /\ workers[n].callAt = 4 * (Second + CyclePause)

\* the thread of the scenario of C4, its sends having taken no time so far
C4_Scenario(n) ==
    /\ MessagesOf(n) = <<"hi", "bye">>
    /\ ChannelOf(n).delay = 2 * Second
    /\ workers[n].latSum = 0

\* C4, as the spec states it: "hi" is sent at t = 0, "bye" at t = 2 s, the
\* cycle is logged as completed at t = 2 s and the next "hi" is sent at
\* t = 3 s.
C4_AsStated ==
    \A n \in DOMAIN workers :
        LET w == workers[n]
        IN  C4_Scenario(n) =>
              /\ (w.pc = "send" /\ w.sendCount = 1) => (w.callAt = 0 /\ w.cycleSent = <<"hi">>)
              /\ (w.pc = "send" /\ w.sendCount = 2) => (w.callAt = 2 * Second /\ w.cycleSent = <<"hi", "bye">>)
              /\ (w.cycleCount = 1) => (w.logAt = 2 * Second)
              /\ (w.pc = "send" /\ w.sendCount = 3) => (w.callAt = 3 * Second /\ w.cycleSent = <<"hi">>)

\* C4, amended: "hi" is sent at t = 0, "bye" at t = 2 s, the cycle is logged
\* as completed at t = 4 s, one delay after its last send, and the next "hi"
\* is sent at t = 5 s, one delay and one pause of 1 s after the last send.
C4_ScenarioTimes ==
    \A n \in DOMAIN workers :
        LET w == workers[n]
        IN  C4_Scenario(n) =>
              /\ (w.pc = "send" /\ w.sendCount = 1) => (w.callAt = 0 /\ w.cycleSent = <<"hi">>)
              /\ (w.pc = "send" /\ w.sendCount = 2) => (w.callAt = 2 * Second /\ w.cycleSent = <<"hi", "bye">>)
              /\ (w.cycleCount = 1) => (w.logAt = 4 * Second)
              /\ (w.pc = "send" /\ w.sendCount = 3) => (w.callAt = 5 * Second /\ w.cycleSent = <<"hi">>)

\* the second "hi" is in flight at t = 5 s
C4_Witness ==
    \E n \in DOMAIN workers :
        /\ C4_Scenario(n)
        /\ workers[n].pc = "send"
        /\ workers[n].sendCount = 3
        /\ workers[n].cycleCount = 1
        /\ workers[n].logAt = 4 * Second
        /\ now = 5 * Second

\* C5: the threads are independent.  Whatever the other threads are doing
\* (waiting inside a send, sleeping, failing), a thread that is not itself
\* inside time.sleep can take its next step; and a step of one thread, at
\* one instant, changes no other thread.
C5_WorkersIndependent ==
    /\ [](\A n \in DOMAIN workers :
            (alive /\ ~(workers[n].pc = "ps_sleep" /\ workers[n].wake > 0))
                => ENABLED worker_step(n))
    /\ [][(now' = now /\ Len(workers') = Len(workers))
            => \A n, m \in DOMAIN workers :
                 (workers'[n] # workers[n] /\ m # n) => (workers'[m] = workers[m])
       ]_vars

\* one thread has been waiting inside a send for a tick, and another thread
\* has just called send_message
C5_Witness ==
    \E n, m \in DOMAIN workers :
        /\ n # m
        /\ workers[n].pc = "send"
        /\ workers[n].latency = 1
        /\ workers[m].pc = "send"
        /\ workers[m].latency = 0
        /\ workers[m].callAt = now
        /\ workers[m].callAt > workers[n].callAt

\* C6: a channel_message_loop thread never ends and, as long as the process
\* runs, sends every message of its list again and again, also when every
\* send fails (the network is down).
C6_WorkerRunsForever ==
    /\ [](\A n \in DOMAIN workers : workers[n].pc # "dead")
    /\ \A n \in WorkerIds : \A k \in Positions :
         []<>(\/ ~alive
              \/ n \notin DOMAIN workers
              \/ k > Len(MessagesOf(n))
              \/ (workers[n].pc = "send" /\ workers[n].i = k - 1))

\* with the network down a thread that has completed a cycle is again
\* sending the second message of its list
C6_Witness ==
    \E n \in DOMAIN workers :
        /\ network = "down"
        /\ workers[n].sinceLog >= 0
        /\ workers[n].pc = "send"
        /\ workers[n].i = 1

\* C7: a thread whose channel has no messages never calls send_message; in
\* every cycle it logs the completion and then is in precise_sleep(1.0), and
\* two consecutive completions are logged exactly the pause of 1 s apart.
C7_EmptyListCycles ==
    /\ [](\A n \in DOMAIN workers :
            (MessagesOf(n) = <<>>) =>
                LET w == workers[n]
                IN  /\ w.pc \notin {"send", "sent", "dead"}
                    /\ w.sendCount = 0
                    /\ w.sinceSend = -1
                    /\ w.cycleSent = <<>>
                    /\ InSleep(w) => /\ w.ret = "cycle"
                                     /\ w.sleep_duration = CyclePause
                                     /\ w.sinceLog = w.elapsed)
    /\ [][\A n \in DOMAIN workers :
            (MessagesOf(n) = <<>> /\ workers[n].pc = "for" /\ workers'[n].pc # "for")
                => /\ workers'[n].pc = "ps_loop"
                   /\ workers'[n].sinceLog = 0
                   /\ (workers[n].sinceLog >= 0) => (workers[n].sinceLog = CyclePause)
       ]_vars

\* a thread without messages sleeps after logging its third cycle at t = 2 s
C7_Witness ==
    \E n \in DOMAIN workers :
        /\ MessagesOf(n) = <<>>
        /\ workers[n].cycleCount = 3
        /\ workers[n].logAt = 2 * CyclePause
        /\ workers[n].pc = "ps_sleep"

\* main has started every user_message_loop and each of them has returned
StartupDone ==
    /\ mainPc = "blocking"
    /\ Len(userRuns) = Len(users)
    /\ \A u \in DOMAIN userRuns : userRuns[u].pc = "returned"

\* C8: once startup is done there is exactly one running channel_message_loop
\* thread for every channel of every account and no other; no channel ever
\* has two threads; a thread keeps its account and its channel.
C8_OneWorkerPerChannel ==
    /\ [](StartupDone =>
            /\ Len(workers) = ChannelCount(users)
            /\ \A a \in DOMAIN users : \A k \in DOMAIN users[a].channels :
                 Cardinality({n \in DOMAIN workers :
                                 /\ workers[n].user = a
                                 /\ workers[n].channel = k
                                 /\ workers[n].pc # "dead"}) = 1)
    /\ [](\A n, m \in DOMAIN workers :
            (n # m) => (<<workers[n].user, workers[n].channel>>
                          # <<workers[m].user, workers[m].channel>>))
    /\ [][/\ Len(workers') >= Len(workers)
          /\ \A n \in DOMAIN workers :
               /\ workers'[n].user = workers[n].user
               /\ workers'[n].channel = workers[n].channel
       ]_vars

\* startup is done and two threads run, for the two channels of one account
C8_Witness ==
    /\ StartupDone
    /\ Len(users) = 1
    /\ Len(workers) = 2
    /\ workers[1].channel # workers[2].channel
    /\ workers[1].sendCount > 1
    /\ workers[2].sendCount > 1

\* C9: when load_from_sheets returns no account, main prints the diagnostic
\* and returns at once: no thread is created or started, no send is issued,
\* no time passes.
C9_NoUsersEndsRun ==
    /\ []((mainPc # "start" /\ users = <<>>) =>
            /\ user_threads = <<>>
            /\ userRuns = <<>>
            /\ workers = <<>>
            /\ now = 0
            /\ mainPc \in {"loaded", "returned", "exited"})
    /\ []((mainPc = "returned" /\ "help" \notin printed) =>
            /\ users = <<>>
            /\ "No users configured" \in printed)
    /\ [][(mainPc = "loaded" /\ users = <<>> /\ mainPc' # "loaded")
            => \/ mainPc' = "returned" /\ "No users configured" \in printed'
               \/ mainPc' = "exited"
       ]_vars

\* main has returned after the diagnostic
C9_Witness ==
    /\ mainPc = "returned"
    /\ users = <<>>
    /\ printed = {"No users configured"}

\* C10: with one account or more, main starts one user_message_loop thread
\* per account, waits for none of them, and stays in its sleep loop: it
\* never returns, and the process ends only by Ctrl-C, whatever the sends
\* do and however many channels the accounts have.
C10_MainBlocks ==
    /\ [](mainPc = "blocking" =>
            /\ users # <<>>
            /\ Len(userRuns) = Len(users)
            /\ \A a \in DOMAIN users : userRuns[a].user = a)
    /\ [](mainPc = "returned" => users = <<>>)
    /\ [][mainPc = "starting" => mainPc' \in {"starting", "blocking", "exited"}]_vars
    /\ [][mainPc = "blocking" =>
            \/ mainPc' = "blocking"
            \/ mainPc' = "exited" /\ "Received shutdown signal" \in printed'
       ]_vars

\* main is in its sleep loop while the user_message_loop thread of the
\* second of two accounts has not yet returned and a thread of the first
\* account is inside a send
C10_Witness ==
    /\ mainPc = "blocking"
    /\ Len(users) = 2
    /\ userRuns[2].pc # "returned"
    /\ \E n \in DOMAIN workers : workers[n].user = 1 /\ workers[n].pc = "send"

C12_SendReportsOneOutcome ==
    /\ [](\A n \in DOMAIN workers :
            /\ workers[n].pc # "dead"
            /\ Len(workers[n].lines) = (IF workers[n].pc = "sent" THEN 1 ELSE 0))
    /\ [][\A n \in DOMAIN workers :
            LET w == workers[n]
                v == workers'[n]
            IN  (w.pc = "send" /\ v.pc # "send") =>
                  /\ v.pc = "sent"
                  /\ v.resp.raised \/ v.resp.status \in StatusCodes
                  /\ v.lines =
                       << [outcome |-> IF v.resp.raised THEN "TransportError"
                                       ELSE IF v.resp.status \in 200..299
                                            THEN "Success"
                                            ELSE "RejectedByServer",
                           user |-> users[w.user].alias,
                           channel |-> ChannelOf(n).alias] >>
       ]_vars

\* send_message has returned after a response with status 199: it has
\* printed the rejection, naming the aliases "alice" and "general"
C12_Witness ==
    \E n \in DOMAIN workers :
        /\ workers[n].pc = "sent"
        /\ workers[n].resp = [raised |-> FALSE, status |-> 199]
        /\ workers[n].lines = << [outcome |-> "RejectedByServer",
                                  user |-> "alice", channel |-> "general"] >>
        /\ ChannelOf(n).id # ChannelOf(n).alias

\* C13: precise_sleep never returns before the time elapsed since its start
\* has reached sleep_duration; the test of the clock that finds it reached
\* ends the call; and with sleep_duration <= 0 the call returns at its first
\* test, no time having passed and time.sleep never entered.
C13_SleepReachesTarget ==
    /\ [][\A n \in DOMAIN workers :
            LET w == workers[n]
                v == workers'[n]
            IN  /\ (InSleep(w) /\ ~InSleep(v)) => (w.elapsed >= w.sleep_duration)
                /\ (w.pc = "ps_loop" /\ w.elapsed >= w.sleep_duration /\ v # w)
                       => (~InSleep(v) /\ v.elapsed = w.elapsed /\ now' = now)
                /\ (w.pc = "ps_loop" /\ w.elapsed < w.sleep_duration /\ now' = now)
                       => InSleep(v)
       ]_vars
    /\ [](\A n \in DOMAIN workers :
            (InSleep(workers[n]) /\ workers[n].sleep_duration <= 0)
                => /\ workers[n].pc = "ps_loop"
                   /\ workers[n].iter = "none"
                   /\ workers[n].elapsed = 0
                   /\ ~worker_waits(workers[n]))

\* precise_sleep(-1) has returned: no time has passed
C13_Witness ==
    \E n \in DOMAIN workers :
        /\ workers[n].call = DefaultCall(-1)
        /\ workers[n].sleep_duration = -1
        /\ workers[n].pc = "cycle_start"
        /\ workers[n].elapsed = 0
        /\ now = 0

\* C14, as the spec states it: every pass of the loop of precise_sleep that
\* finds the target not reached enters time.sleep(0.1) before the clock is
\* read again; the loop never reads the clock again without having slept.
C14_AsStated ==
    /\ [][\A n \in DOMAIN workers :
            (workers[n].pc = "ps_loop" /\ ps_running(workers[n])
                                       /\ workers'[n] # workers[n] /\ now' = now)
                => workers'[n].pc = "ps_sleep"
       ]_vars
    /\ [](\A n \in DOMAIN workers : workers[n].iter # "spin")

\* C14, amended: a pass of the loop that finds more than 100 ms remaining
\* enters time.sleep(0.1) before the clock is read again; a pass that finds
\* 100 ms or less remaining does not sleep, and the loop reads the clock again
\* and again until the target is reached.  The polling without sleep is
\* bounded to the last 100 ms of every wait, the pause of 1 s included.
C14_PollsOnlyAtTheEnd ==
    /\ [][\A n \in DOMAIN workers :
            LET w == workers[n]
                v == workers'[n]
            IN  (w.pc = "ps_loop" /\ ps_running(w) /\ v # w /\ now' = now)
                    => IF w.sleep_duration - w.elapsed > SleepThreshold
                       THEN v.pc = "ps_sleep" /\ v.wake >= SleepIncrement
                       ELSE v.pc = "ps_loop" /\ v.iter = "spin"
       ]_vars
    /\ [](\A n \in DOMAIN workers :
            LET w == workers[n]
            IN  (InSleep(w) /\ w.iter = "spin")
                    => /\ w.pc = "ps_loop"
                       /\ w.sleep_duration - w.elapsed <= SleepThreshold
                       /\ w.sleep_duration - w.elapsed >= 0)

\* 900 ms into the pause of 1 s between two cycles a thread is reading the
\* clock without sleeping
C14_Witness ==
    \E n \in DOMAIN workers :
        /\ workers[n].pc = "ps_loop"
        /\ workers[n].ret = "cycle"
        /\ workers[n].sleep_duration = CyclePause
        /\ workers[n].elapsed = CyclePause - SleepThreshold
        /\ workers[n].iter = "spin"

\* C15, as the spec states it: sleep_duration is duration plus a value
\* between min_random and max_random when one of the two is not zero, and
\* duration when both are zero; randomize plays no part.
C15_AsStated ==
    \A n \in DOMAIN workers :
        LET w == workers[n]
            c == w.call
        IN  InSleep(w) =>
              IF c.min_random # 0 \/ c.max_random # 0
              THEN /\ w.sleep_duration >= c.duration + Min(c.min_random, c.max_random)
                   /\ w.sleep_duration <= c.duration + Max(c.min_random, c.max_random)
              ELSE w.sleep_duration = c.duration

\* C15, amended: sleep_duration is duration plus a value between min_random
\* and max_random when randomize is true, and duration when randomize is
\* false, whatever min_random and max_random are; randomize alone decides
\* whether the jitter is applied.
C15_RandomizeDecides ==
    \A n \in DOMAIN workers :
        LET w == workers[n]
            c == w.call
        IN  InSleep(w) =>
              IF c.randomize
              THEN /\ w.sleep_duration >= c.duration + Min(c.min_random, c.max_random)
                   /\ w.sleep_duration <= c.duration + Max(c.min_random, c.max_random)
              ELSE w.sleep_duration = c.duration

\* precise_sleep(5, False, 1, 2) is 300 ms into a wait of 500 ms
C15_Witness ==
    \E n \in DOMAIN workers :
        /\ workers[n].call = Call(5, FALSE, 1, 2)
        /\ workers[n].sleep_duration = 5
        /\ workers[n].pc = "ps_sleep"
        /\ workers[n].elapsed = 3

\* C16: a thread follows the state machine of channel_message_loop.  Once
\* send_message has returned for the message at position i the thread is in
\* precise_sleep(channel.delay); when that wait is over it sends the message
\* at position i + 1 if there is one, and otherwise logs the cycle and is in
\* precise_sleep(1.0), after which it sends the message at position 0 again.
\* The first send of a cycle is called one delay and one pause of 1 s after
\* the last send of the cycle before returned.
C16_StateMachine ==
    [][\A n \in DOMAIN workers :
         LET w == workers[n]
             v == workers'[n]
             ch == ChannelOf(n)
             count == Len(ch.messages)
         IN  /\ (w.pc = "sent" /\ v # w)
                    => /\ InSleep(v)
                       /\ v.ret = "msg"
                       /\ v.sleep_duration = ch.delay
                       /\ v.i = w.i
             /\ (InSleep(w) /\ w.ret = "msg" /\ ~InSleep(v))
                    => /\ w.elapsed >= ch.delay
                       /\ IF w.i + 1 < count
                          THEN v.pc = "for" /\ v.i = w.i + 1 /\ has_next(v, ch.messages)
                          ELSE v.pc = "for" /\ ~has_next(v, ch.messages)
             /\ (w.pc = "for" /\ v # w)
                    => IF w.i < count
                       THEN /\ v.pc = "send"
                            /\ v.i = w.i
                            /\ v.cycleSent = Append(w.cycleSent, ch.messages[w.i + 1])
                       ELSE /\ InSleep(v)
                            /\ v.ret = "cycle"
                            /\ v.sleep_duration = CyclePause
                            /\ v.sinceLog = 0
             /\ (InSleep(w) /\ w.ret = "cycle" /\ ~InSleep(v))
                    => /\ w.elapsed >= CyclePause
                       /\ v.pc = "cycle_start"
             /\ (w.pc = "cycle_start" /\ v # w)
                    => /\ v.pc = "for"
                       /\ v.i = 0
                       /\ v.cycleSent = <<>>
             /\ (w.pc = "for" /\ v.pc = "send" /\ w.i = 0 /\ w.sinceSend >= 0)
                    => /\ w.sinceLog = CyclePause
                       /\ w.sinceSend = ch.delay + CyclePause
      ]_vars

\* a thread of two messages calls send_message for the first message of its
\* second cycle, one delay and 1 s after the second message was sent
C16_Witness ==
    \E n \in DOMAIN workers :
        /\ Len(MessagesOf(n)) = 2
        /\ workers[n].pc = "send"
        /\ workers[n].i = 0
        /\ workers[n].cycleCount = 1
        /\ workers[n].sendCount = 3
        /\ workers[n].sinceLog = CyclePause
        /\ workers[n].sinceSend = ChannelOf(n).delay + CyclePause

\* C17: nothing is tried twice.  A call of send_message makes one request,
\* whatever its outcome; in a cycle the for loop calls send_message once for
\* each position of the message list, in order, whatever the outcomes, so
\* that a cycle is logged after as many calls as the list has messages.
C17_NoRetry ==
    /\ [](\A n \in DOMAIN workers :
            workers[n].requests = (IF workers[n].pc \in {"send", "sent"} THEN 1 ELSE 0))
    /\ [][\A n \in DOMAIN workers :
            LET w == workers[n]
                v == workers'[n]
            IN  /\ (w.pc = "send" /\ v.pc # "send")
                       => (v.pc = "sent" /\ v.requests = 1 /\ v.cycleSent = w.cycleSent)
                /\ (w.pc = "for" /\ v.pc = "send")
                       => /\ w.i = Len(w.cycleSent)
                          /\ Len(v.cycleSent) = Len(w.cycleSent) + 1
                /\ (w.pc = "sent" /\ v # w)
                       => (v.cycleSent = w.cycleSent /\ v.i = w.i)
                /\ (InSleep(w) /\ w.ret = "msg" /\ ~InSleep(v))
                       => (v.i = Len(w.cycleSent) /\ v.cycleSent = w.cycleSent)
                /\ (w.pc = "for" /\ InSleep(v))
                       => Len(w.cycleSent) = Len(MessagesOf(n))
       ]_vars

\* with the network down a thread of two messages has failed to send the
\* second message of its second cycle: the call has made one request and is
\* the fourth call in all
C17_Witness ==
    \E n \in DOMAIN workers :
        /\ network = "down"
        /\ Len(MessagesOf(n)) = 2
        /\ workers[n].pc = "sent"
        /\ workers[n].outcome = "TransportError"
        /\ workers[n].requests = 1
        /\ workers[n].cycleCount = 1
        /\ workers[n].sendCount = 4
        /\ Len(workers[n].cycleSent) = 2

\* C18: once load_from_sheets has returned, no step of main, of a
\* user_message_loop or of a channel_message_loop (send_message and
\* precise_sleep included) changes the list of accounts or anything in it.
\* What changes at run time is a thread's own record: a step of a thread
\* leaves every other thread's record, and the account and channel the thread
\* is bound to, as they were, and whether a thread can step does not depend
\* on the other threads.
C18_ConfigNeverChanges ==
    /\ [][(mainPc # "start") => (users' = users)]_vars
    /\ [](mainPc # "start" => users \in Configs)
    /\ [][\A n \in DOMAIN workers :
            /\ workers'[n].user = workers[n].user
            /\ workers'[n].channel = workers[n].channel
            /\ (workers'[n] # workers[n] /\ now' = now)
                   => /\ \A m \in DOMAIN workers \ {n} : workers'[m] = workers[m]
                      /\ userRuns' = userRuns
                      /\ user_threads' = user_threads
                      /\ printed' = printed
                      /\ mainPc' = mainPc
       ]_vars
    /\ [](\A n \in DOMAIN workers :
            LET w == workers[n]
            IN  ENABLED worker_step(n)
                  <=> /\ alive
                      /\ \/ w.pc \in {"cycle_start", "for", "send", "sent", "ps_loop"}
                         \/ w.pc = "ps_sleep" /\ w.wake = 0)

\* two threads of one account have each completed a cycle and are at
\* different positions, one thread inside a send; the accounts are as loaded
C18_Witness ==
    /\ users \in Configs
    /\ \E n, m \in DOMAIN workers :
         /\ n # m
         /\ workers[n].user = workers[m].user
         /\ workers[n].cycleCount >= 1
         /\ workers[m].cycleCount >= 1
         /\ workers[n].pc = "send"
         /\ workers[m].pc = "ps_sleep"

\* C19, as the spec states it: every channel a channel_message_loop thread
\* is started for has a delay above zero; no channel that from_sheet_row and
\* load_from_sheets built with a delay of zero or less reaches a thread.
C19_AsStated ==
    \A n \in DOMAIN workers : ChannelOf(n).delay > 0

\* the data rows of a sheet that have all eight cells
complete_rows(sheet) ==
    IF Len(sheet) = 0 THEN <<>>
    ELSE SelectSeq(Tail(sheet), LAMBDA row : Len(row) >= 8)

\* C20: loading is all or nothing.  For a sheet of the right structure: if
\* the delay of one row of eight cells is no number, load_from_sheets
\* returns no account at all, the accounts of the rows before it included,
\* and main prints "No users configured" and returns, no thread started;
\* if the delay of every row of eight cells is a number, every such row has
\* its channel in the accounts returned, and the rows of fewer cells, and
\* only they, are left out.
C20_LoadAllOrNothing ==
    (Len(values) > 0 /\ validate_sheet_structure(values)) =>
        LET rows == complete_rows(values)
        IN  IF \E k \in DOMAIN rows : float(rows[k][8]).raised
            THEN /\ users = <<>>
                 /\ user_threads = <<>>
                 /\ userRuns = <<>>
                 /\ workers = <<>>
                 /\ mainPc \in {"loaded", "returned", "exited"}
                 /\ (mainPc = "returned") => ("No users configured" \in printed)
            ELSE /\ ChannelCount(users) = Len(rows)
                 /\ \A k \in DOMAIN rows :
                      \E a \in DOMAIN users :
                        /\ users[a].user_id = rows[k][1]
                        /\ \E c \in DOMAIN users[a].channels :
                             users[a].channels[c].id = rows[k][5]
                 /\ \A a \in DOMAIN users :
                      \E k \in DOMAIN rows : rows[k][1] = users[a].user_id

\* main has returned after "No users configured": the sheet has a first row
\* that is well formed, a row of five cells and a row whose delay is "soon"
C20_Witness ==
    /\ mainPc = "returned"
    /\ printed = {"No users configured"}
    /\ users = <<>>
    /\ validate_sheet_structure(values)
    /\ Len(complete_rows(values)) = 3
    /\ Len(values) = 5
    /\ ~float(values[2][8]).raised
    /\ float(complete_rows(values)[2][8]).raised

=============================================================================
